---- MODULE Spec2Model ----
(***************************************************************************)
(* Model of qm2d_split_op/src/fft.rs: the in-place square transpose, the   *)
(* bit-reversal permutation, the iterative radix-2 kernel with its two     *)
(* directional wrappers, and the threaded row transform.                   *)
(*                                                                         *)
(* Arithmetic is exact.  A real number is (a + b*sqrt(2)) / 2^d, which     *)
(* holds every cos and sin the kernel evaluates for block sizes 2, 4 and 8 *)
(* and the 1/size scale of a power-of-two size; the rounding of f32 and    *)
(* f64 is not modelled.  Arrays are functions over 0 .. len-1, so that     *)
(* offsets are the offsets of the source.                                  *)
(***************************************************************************)
EXTENDS Integers, Sequences, FiniteSets, TLC

VARIABLES
    array,        \* the buffer every function takes as `array`
    orig,         \* history: the buffer before the first call
    n,            \* `n` of square_transpose_in_place and reverse_bit_sort
    size,         \* `size` of base_f32_fft_in_place
    pc,           \* position of the calling thread
    i,            \* loop variable i
    j,            \* loop variable j
    block_size,   \* block_size of base_f32_fft_in_place
    is_inverse,   \* direction flag of the running call
    e,            \* twiddle factor of the last butterfly
    calls,        \* history: the calls made so far
    swaps,        \* history: the swaps of the running call, as <<offset, offset>>
    N,            \* crate::constants::N
    TH_COUNT,     \* crate::constants::TH_COUNT
    th_index,     \* th_index of horizontal_square_fft
    receivers,    \* the Vec of receivers, as the partitions they belong to
    v,            \* v[k]: the worker-local copy of partition k
    owner,        \* owner[k]: who holds v[k]
    wpc,          \* wpc[k]: position of worker k
    wi,           \* wi[k]: row index of worker k
    chan,         \* chan[k]: state of the channel of partition k
    rv,           \* the buffer the orchestrator received last
    sent_order,   \* history: partitions in the order their buffers were sent
    merged        \* history: partitions whose buffer was written back

vars == <<array, orig, n, size, pc, i, j, block_size, is_inverse, e, calls, swaps,
          N, TH_COUNT, th_index, receivers, v, owner, wpc, wi, chan, rv,
          sent_order, merged>>

seqVars == <<n, size, i, j, block_size, is_inverse, e, calls, swaps>>
parVars == <<N, TH_COUNT, th_index, receivers, v, owner, wpc, wi, chan, rv,
             sent_order, merged>>

(***************************************************************************)
(* Bounds.                                                                 *)
(***************************************************************************)
MaxLog == 2       \* power-of-two sizes of the kernel and the grid run up to 2^MaxLog
MaxLogR == 3      \* reverse_bit_sort sizes run up to 2^MaxLogR
MaxNZ == 1        \* non-zero amplitudes in a sparse input sequence
MaxDim == 3       \* side of the transposed buffer
MaxSeed == 1      \* grid patterns of the row transform
MaxTh == 4        \* worker counts tried for TH_COUNT


(***************************************************************************)
(* Exact reals (a + b*sqrt(2)) / 2^d in lowest terms.                      *)
(***************************************************************************)
RECURSIVE RNorm(_)
RNorm(x) ==
    IF x.d > 0 /\ x.a % 2 = 0 /\ x.b % 2 = 0
    THEN RNorm([a |-> x.a \div 2, b |-> x.b \div 2, d |-> x.d - 1])
    ELSE x

R(k) == [a |-> k, b |-> 0, d |-> 0]

RAdd(x, y) ==
    LET m == IF x.d > y.d THEN x.d ELSE y.d
    IN  RNorm([a |-> x.a * 2^(m - x.d) + y.a * 2^(m - y.d),
               b |-> x.b * 2^(m - x.d) + y.b * 2^(m - y.d),
               d |-> m])

RNeg(x) == [a |-> 0 - x.a, b |-> 0 - x.b, d |-> x.d]

RSub(x, y) == RAdd(x, RNeg(y))

RMul(x, y) ==
    RNorm([a |-> x.a * y.a + 2 * x.b * y.b,
           b |-> x.a * y.b + x.b * y.a,
           d |-> x.d + y.d])

\* sqrt(2)/2
HalfRoot2 == [a |-> 0, b |-> 1, d |-> 1]

IsPow2(k) == \E p \in 0..10 : k = 2^p

Log2(k) == CHOOSE p \in 0..10 : k = 2^p

\* 1.0/(size as f64), for the power-of-two sizes at which the kernel uses it
RInv(sz) == [a |-> 1, b |-> 0, d |-> Log2(sz)]

\* f64::cos(2*PI*k/bs), exact at the multiples of PI/4
Cos(k, bs) ==
    LET t == ((8 * k) \div bs) % 8
    IN  CASE t = 0 -> R(1)
          [] t = 1 -> HalfRoot2
          [] t = 2 -> R(0)
          [] t = 3 -> RNeg(HalfRoot2)
          [] t = 4 -> R(-1)
          [] t = 5 -> RNeg(HalfRoot2)
          [] t = 6 -> R(0)
          [] t = 7 -> HalfRoot2

\* f64::sin(2*PI*k/bs), exact at the multiples of PI/4
Sin(k, bs) ==
    LET t == ((8 * k) \div bs) % 8
    IN  CASE t = 0 -> R(0)
          [] t = 1 -> HalfRoot2
          [] t = 2 -> R(1)
          [] t = 3 -> HalfRoot2
          [] t = 4 -> R(0)
          [] t = 5 -> RNeg(HalfRoot2)
          [] t = 6 -> R(-1)
          [] t = 7 -> RNeg(HalfRoot2)

(***************************************************************************)
(* Complex<T> of crate::complex.                                           *)
(***************************************************************************)
Complex(re, im) == [real |-> re, imag |-> im]

Cx(re, im) == Complex(R(re), R(im))

Zero == Cx(0, 0)

\* no buffer held: before the first recv(), and after a buffer is dropped
NoBuffer == [from |-> -1, buf |-> <<>>]

CAdd(x, y) == Complex(RAdd(x.real, y.real), RAdd(x.imag, y.imag))

CSub(x, y) == Complex(RSub(x.real, y.real), RSub(x.imag, y.imag))

CMul(x, y) ==
    Complex(RSub(RMul(x.real, y.real), RMul(x.imag, y.imag)),
            RAdd(RMul(x.real, y.imag), RMul(x.imag, y.real)))

CScale(x, s) == Complex(RMul(x.real, s), RMul(x.imag, s))

ALen(a) == Cardinality(DOMAIN a)

\* the array with the elements at offsets p and q exchanged through tmp
SwapAt(a, p, q) == [a EXCEPT ![p] = a[q], ![q] = a[p]]

(***************************************************************************)
(* square_transpose_in_place                                               *)
(***************************************************************************)
\* faulty variant: the inner loop runs over every j
InnerStartFromZero(ii) == 0

\* first j of the inner loop: for j in i+1..n
InnerStart(ii) == ii + 1

\* buffers the transpose is tried on: all offsets distinct, and one marked cell
TInputs(nn) ==
    {[k \in 0..(nn * nn - 1) |-> Cx(k + 1, 0 - k)]}
    \cup {[k \in 0..(nn * nn - 1) |-> IF k = p THEN Cx(0, 1) ELSE Zero] :
             p \in 0..(nn * nn - 1)}

ParIdle ==
    /\ N = 0 /\ TH_COUNT = 0 /\ th_index = 0 /\ receivers = <<>>
    /\ v = <<>> /\ owner = <<>> /\ wpc = <<>> /\ wi = <<>> /\ chan = <<>>
    /\ rv = NoBuffer /\ sent_order = <<>> /\ merged = {}

TInit ==
    /\ n \in 0..MaxDim
    /\ size = 0
    /\ array \in TInputs(n)
    /\ orig = array
    /\ pc = "idle"
    /\ i = 0 /\ j = 0 /\ block_size = 0 /\ is_inverse = FALSE /\ e = Zero
    /\ calls = <<>> /\ swaps = <<>>
    /\ ParIdle

TransposeCall ==
    /\ pc = "idle"
    /\ pc' = "outer"
    /\ i' = 0
    /\ calls' = Append(calls, "square_transpose_in_place")
    /\ UNCHANGED <<array, orig, n, size, j, block_size, is_inverse, e, swaps>>
    /\ UNCHANGED parVars

\* head of `for i in 0..n`
TransposeOuter ==
    /\ pc = "outer"
    /\ IF i < n
       THEN pc' = "inner" /\ j' = InnerStart(i)
       ELSE pc' = "done" /\ j' = j
    /\ UNCHANGED <<array, orig, n, size, i, block_size, is_inverse, e, calls, swaps>>
    /\ UNCHANGED parVars

\* body of `for j in i+1..n`
TransposeSwap ==
    /\ pc = "inner"
    /\ j < n
    /\ array' = SwapAt(array, i * n + j, j * n + i)
    /\ swaps' = Append(swaps, <<i * n + j, j * n + i>>)
    /\ j' = j + 1
    /\ UNCHANGED <<orig, n, size, pc, i, block_size, is_inverse, e, calls>>
    /\ UNCHANGED parVars

\* end of the inner loop: next i
TransposeInnerEnd ==
    /\ pc = "inner"
    /\ j >= n
    /\ i' = i + 1
    /\ pc' = "outer"
    /\ UNCHANGED <<array, orig, n, size, j, block_size, is_inverse, e, calls, swaps>>
    /\ UNCHANGED parVars

TNext == TransposeCall \/ TransposeOuter \/ TransposeSwap \/ TransposeInnerEnd

SpecTranspose == TInit /\ [][TNext]_vars

(***************************************************************************)
(* reverse_bit_sort                                                        *)
(***************************************************************************)
\* the inner `while u < n` loop: rev += d*((i&u)/u); u <<= 1; d >>= 1
RECURSIVE RevLoop(_, _, _, _, _)
RevLoop(ii, nn, u, d, rev) ==
    IF u < nn
    THEN RevLoop(ii, nn, u * 2, d \div 2, rev + d * ((ii \div u) % 2))
    ELSE rev

Rev(ii, nn) == RevLoop(ii, nn, 1, nn \div 2, 0)

\* faulty variant: the swap is not guarded
SwapGuardAlways(rev, ii) == TRUE

\* the guard of the swap: if rev >= i
SwapGuard(rev, ii) == rev >= ii

\* one iteration of `for i in 0..n`
RbsIter(a, ii, nn) ==
    IF SwapGuard(Rev(ii, nn), ii) THEN SwapAt(a, ii, Rev(ii, nn)) ELSE a

RECURSIVE RbsFrom(_, _, _)
RbsFrom(a, ii, nn) ==
    IF ii < nn THEN RbsFrom(RbsIter(a, ii, nn), ii + 1, nn) ELSE a

ReverseBitSort(a, nn) == RbsFrom(a, 0, nn)

\* sequences the permutation is tried on: all distinct, and one marked element
RInputs(nn) ==
    {[k \in 0..(nn - 1) |-> Cx(k + 1, 0 - k)]}
    \cup {[k \in 0..(nn - 1) |-> IF k = p THEN Cx(0, 1) ELSE Zero] : p \in 0..(nn - 1)}

RInit ==
    /\ n \in {2^k : k \in 0..MaxLogR}
    /\ size = 0
    /\ array \in RInputs(n)
    /\ orig = array
    /\ pc = "idle"
    /\ i = 0 /\ j = 0 /\ block_size = 0 /\ is_inverse = FALSE /\ e = Zero
    /\ calls = <<>> /\ swaps = <<>>
    /\ ParIdle

\* a call of reverse_bit_sort(array, n); the model makes two in a row
RbsCall ==
    /\ pc \in {"idle", "done"}
    /\ Len(calls) < 2
    /\ pc' = "loop"
    /\ i' = 0
    /\ swaps' = <<>>
    /\ calls' = Append(calls, "reverse_bit_sort")
    /\ UNCHANGED <<array, orig, n, size, j, block_size, is_inverse, e>>
    /\ UNCHANGED parVars

\* one iteration of `for i in 0..n`
RbsStep ==
    /\ pc = "loop"
    /\ i < n
    /\ array' = RbsIter(array, i, n)
    /\ swaps' = IF SwapGuard(Rev(i, n), i)
                THEN Append(swaps, <<i, Rev(i, n)>>)
                ELSE swaps
    /\ i' = i + 1
    /\ UNCHANGED <<orig, n, size, pc, j, block_size, is_inverse, e, calls>>
    /\ UNCHANGED parVars

RbsReturn ==
    /\ pc = "loop"
    /\ i >= n
    /\ pc' = "done"
    /\ UNCHANGED <<array, orig, n, size, i, j, block_size, is_inverse, e, calls, swaps>>
    /\ UNCHANGED parVars

RNext == RbsCall \/ RbsStep \/ RbsReturn

SpecRbs == RInit /\ [][RNext]_vars

(***************************************************************************)
(* base_f32_fft_in_place, fft_in_place, ifft_in_place                      *)
(***************************************************************************)
\* faulty variant: the signs of the two directions exchanged
SgnSwapped(inv) == IF inv THEN R(1) ELSE R(-1)

\* let sgn: f64 = if is_inverse {-1.0} else {1.0}
Sgn(inv) == IF inv THEN R(-1) ELSE R(1)

\* let e = Complex { real: cos(2*PI*i/block_size), imag: sgn*sin(2*PI*i/block_size) }
Twiddle(k, bs, inv) == Complex(Cos(k, bs), RMul(Sgn(inv), Sin(k, bs)))

\* faulty variant: the inverse scales on every pass, by the size of its blocks
ScaleEveryPass(inv, bs, sz) == IF inv THEN RInv(bs) ELSE R(1)

\* faulty variant: the last pass scales in both directions
ScaleBothDirections(inv, bs, sz) == IF bs = sz THEN RInv(sz) ELSE R(1)

\* let s = if is_inverse && block_size == size {1.0/(size as f64)} else {1.0}
ScaleFactor(inv, bs, sz) == IF inv /\ bs = sz THEN RInv(sz) ELSE R(1)

\* faulty variant: only blocks that lie within the slice are started
BlockLoopWholeBlocks(jj, bs, sz) == jj + bs <= sz

\* the condition of `while j < size`
BlockLoop(jj, bs, sz) == jj < sz

\* the kernel after reverse_bit_sort, at the head of its loops
KStart(a, sz) ==
    [array |-> ReverseBitSort(a, sz), block_size |-> 2, j |-> 0, i |-> 0,
     e |-> Zero,
     pc |-> IF 2 <= sz /\ BlockLoop(0, 2, sz) THEN "butterfly" ELSE "done"]

\* loop control after a butterfly: next i, else next j, else next block_size
Advance(k, sz) ==
    IF k.i + 1 < k.block_size \div 2
    THEN [k EXCEPT !.i = k.i + 1]
    ELSE IF BlockLoop(k.j + k.block_size, k.block_size, sz)
    THEN [k EXCEPT !.i = 0, !.j = k.j + k.block_size]
    ELSE IF k.block_size * 2 <= sz /\ BlockLoop(0, k.block_size * 2, sz)
    THEN [k EXCEPT !.i = 0, !.j = 0, !.block_size = k.block_size * 2]
    ELSE [k EXCEPT !.pc = "done"]

\* one butterfly; an offset outside the slice panics before anything is written
KStep(k, sz, inv) ==
    LET p == k.j + k.i
        q == k.j + k.i + k.block_size \div 2
        tw == Twiddle(k.i, k.block_size, inv)
    IN  IF p >= ALen(k.array) \/ q >= ALen(k.array)
        THEN [k EXCEPT !.pc = "panic", !.e = tw]
        ELSE LET even == k.array[p]
                 odd == k.array[q]
                 s == ScaleFactor(inv, k.block_size, sz)
             IN  Advance([k EXCEPT
                            !.e = tw,
                            !.array = [k.array EXCEPT
                                ![p] = CScale(CAdd(even, CMul(odd, tw)), s),
                                ![q] = CScale(CSub(even, CMul(odd, tw)), s)]],
                         sz)

RECURSIVE KRun(_, _, _)
KRun(k, sz, inv) ==
    IF k.pc = "butterfly" THEN KRun(KStep(k, sz, inv), sz, inv) ELSE k

\* the whole call: the final kernel state, pc "done" or "panic"
base_f32_fft_in_place(a, sz, inv) == KRun(KStart(a, sz), sz, inv)

\* amplitudes of the input sequences
Amps == {Cx(1, 0), Cx(0, 1), Cx(2, -1)}

\* input sequences of a length: at most MaxNZ non-zero amplitudes, and the constants
FInputs(sz) ==
    LET sparse ==
            UNION {{[k \in 0..(sz - 1) |-> IF k \in S THEN f[k] ELSE Zero] :
                        f \in [S -> Amps]} :
                   S \in {T \in SUBSET (0..(sz - 1)) : Cardinality(T) <= MaxNZ}}
        const == {[k \in 0..(sz - 1) |-> c] : c \in Amps}
        ramp == [k \in 0..(sz - 1) |-> Cx(k, 1 - k)]
    IN  sparse \cup const \cup {ramp}

FInit ==
    /\ size \in 0..(3 * 2^(MaxLog - 1))
    /\ n = 0
    /\ array \in FInputs(size)
    /\ orig = array
    /\ pc = "idle"
    /\ i = 0 /\ j = 0 /\ block_size = 0 /\ is_inverse = FALSE /\ e = Zero
    /\ calls = <<>> /\ swaps = <<>>
    /\ ParIdle

\* the model calls one transform, and then the other one
CanCall(name) ==
    /\ pc \in {"idle", "done"}
    /\ \/ calls = <<>>
       \/ Len(calls) = 1 /\ calls[1] # name

\* entry of base_f32_fft_in_place(array, size, inv), up to the first butterfly
Enter(name, inv) ==
    /\ CanCall(name)
    /\ calls' = Append(calls, name)
    /\ is_inverse' = inv
    /\ \E k \in {KStart(array, size)} :
          /\ array' = k.array
          /\ block_size' = k.block_size
          /\ j' = k.j
          /\ i' = k.i
          /\ e' = k.e
          /\ pc' = k.pc
    /\ UNCHANGED <<orig, n, size, swaps>>
    /\ UNCHANGED parVars

fft_in_place == Enter("fft_in_place", FALSE)

ifft_in_place == Enter("ifft_in_place", TRUE)

\* one pass of the body of `for i in 0..block_size/2`
Butterfly ==
    /\ pc = "butterfly"
    /\ \E k \in {KStep([array |-> array, block_size |-> block_size, j |-> j,
                         i |-> i, e |-> e, pc |-> pc], size, is_inverse)} :
          /\ array' = k.array
          /\ block_size' = k.block_size
          /\ j' = k.j
          /\ i' = k.i
          /\ e' = k.e
          /\ pc' = k.pc
    /\ UNCHANGED <<orig, n, size, is_inverse, calls, swaps>>
    /\ UNCHANGED parVars

FNext == fft_in_place \/ ifft_in_place \/ Butterfly

SpecFFT == FInit /\ [][FNext]_vars

(***************************************************************************)
(* horizontal_square_fft: the orchestrator and its TH_COUNT workers        *)
(***************************************************************************)
Parts == 0..(TH_COUNT - 1)

\* faulty variant: the copy-in starts at the partition's row, not at its first cell
CopyInStartRows(th) == (th * N) \div TH_COUNT

\* first offset of the copy-in loop: th_index*N*N/TH_COUNT
CopyInStart(th) == (th * N * N) \div TH_COUNT

\* end of the copy-in loop: (th_index + 1)*N*N/TH_COUNT
CopyInEnd(th) == ((th + 1) * N * N) \div TH_COUNT

\* faulty variant: the rows written are chosen by the rank of the buffer's arrival
DestByArrival(th, from) ==
    (CHOOSE k \in 1..Len(sent_order) : sent_order[k] = from) - 1

\* the partition whose rows the write-back loop addresses: th_index itself
DestPartition(th, from) == th

\* first and last row of `for i in th_index*N/TH_COUNT..(th_index + 1)*N/TH_COUNT`
RowStart(th) == (th * N) \div TH_COUNT

RowEnd(th) == ((th + 1) * N) \div TH_COUNT

\* faulty variant: the buffer is taken without waiting for the worker
RecvNoWait(r) == TRUE

\* r.recv() blocks until the channel holds a buffer or its sender is gone
RecvReady(r) == chan[r] \in {"full", "closed"}

\* faulty variant: the loop ends with one receiver left
LoopDoneEarly == Len(receivers) <= 1

\* `while let Some(r) = receivers.pop()` ends when the Vec is empty
LoopDone == receivers = <<>>

\* grids the row transform is tried on
Grid(nn, s) ==
    [k \in 0..(nn * nn - 1) |->
        IF s = 0 THEN Cx(k + 1, 0 - k) ELSE Cx((k * s) % 3, (k + s) % 2)]

HSizes == 1..(2^MaxLog)

HInit ==
    /\ N \in HSizes
    /\ TH_COUNT \in {t \in 1..MaxTh : N % t = 0}
    /\ array \in {Grid(N, s) : s \in 0..MaxSeed}
    /\ orig = array
    /\ is_inverse \in BOOLEAN
    /\ pc = "fill"
    /\ th_index = 0
    /\ receivers = <<>>
    /\ v = [k \in Parts |-> <<>>]
    /\ owner = [k \in Parts |-> "none"]
    /\ wpc = [k \in Parts |-> "unspawned"]
    /\ wi = [k \in Parts |-> 0]
    /\ chan = [k \in Parts |-> "none"]
    /\ rv = NoBuffer
    /\ sent_order = <<>>
    /\ merged = {}
    /\ n = 0 /\ size = 0 /\ i = 0 /\ j = 0 /\ block_size = 0 /\ e = Zero
    /\ calls = <<"horizontal_square_fft">> /\ swaps = <<>>

\* lines 105-110: a new channel, and the partition's cells pushed into a new Vec
Fill ==
    /\ pc = "fill"
    /\ th_index < TH_COUNT
    /\ chan' = [chan EXCEPT ![th_index] = "open"]
    /\ v' = [v EXCEPT ![th_index] =
                [o \in 0..(CopyInEnd(th_index) - CopyInStart(th_index) - 1) |->
                    array[CopyInStart(th_index) + o]]]
    /\ owner' = [owner EXCEPT ![th_index] = "orchestrator"]
    /\ pc' = "spawn"
    /\ UNCHANGED <<array, orig, N, TH_COUNT, th_index, receivers, wpc, wi, rv,
                   sent_order, merged>>
    /\ UNCHANGED seqVars

\* lines 111-121: the Vec moves into the spawned thread, the receiver is pushed
Spawn ==
    /\ pc = "spawn"
    /\ owner' = [owner EXCEPT ![th_index] = "worker"]
    /\ wpc' = [wpc EXCEPT ![th_index] = "run"]
    /\ wi' = [wi EXCEPT ![th_index] = 0]
    /\ receivers' = Append(receivers, th_index)
    /\ IF th_index + 1 < TH_COUNT
       THEN th_index' = th_index + 1 /\ pc' = "fill"
       ELSE th_index' = TH_COUNT - 1 /\ pc' = "recv"
    /\ UNCHANGED <<array, orig, N, TH_COUNT, v, chan, rv, sent_order, merged>>
    /\ UNCHANGED seqVars

\* lines 112-118: worker k transforms row wi[k] of its own Vec; a panic of the
\* kernel unwinds the thread, which drops the Vec and the sender
WorkerRow(k) ==
    LET base == wi[k] * N
        row == [o \in 0..(N - 1) |-> v[k][base + o]]
    IN  /\ wpc[k] = "run"
        /\ wi[k] < N \div TH_COUNT
        /\ \E res \in {base_f32_fft_in_place(row, N, is_inverse)} :
              IF res.pc = "panic"
              THEN /\ wpc' = [wpc EXCEPT ![k] = "panicked"]
                   /\ chan' = [chan EXCEPT ![k] = "closed"]
                   /\ owner' = [owner EXCEPT ![k] = "dropped"]
                   /\ UNCHANGED <<v, wi>>
              ELSE /\ v' = [v EXCEPT ![k] =
                              [o \in DOMAIN v[k] |->
                                  IF o >= base /\ o < base + N
                                  THEN res.array[o - base]
                                  ELSE v[k][o]]]
                   /\ wi' = [wi EXCEPT ![k] = wi[k] + 1]
                   /\ UNCHANGED <<wpc, chan, owner>>
        /\ UNCHANGED <<array, orig, N, TH_COUNT, th_index, receivers, rv,
                       sent_order, merged, pc>>
        /\ UNCHANGED seqVars

\* line 119: tx.send(v).unwrap(); the send fails once the receiver is dropped
WorkerSend(k) ==
    /\ wpc[k] = "run"
    /\ wi[k] >= N \div TH_COUNT
    /\ IF pc = "panic"
       THEN /\ wpc' = [wpc EXCEPT ![k] = "panicked"]
            /\ owner' = [owner EXCEPT ![k] = "dropped"]
            /\ UNCHANGED <<chan, sent_order>>
       ELSE /\ wpc' = [wpc EXCEPT ![k] = "sent"]
            /\ chan' = [chan EXCEPT ![k] = "full"]
            /\ owner' = [owner EXCEPT ![k] = "channel"]
            /\ sent_order' = Append(sent_order, k)
    /\ UNCHANGED <<array, orig, N, TH_COUNT, th_index, receivers, v, wi, rv,
                   merged, pc>>
    /\ UNCHANGED seqVars

\* lines 131-132: the last receiver is popped and its buffer awaited; recv()
\* on a channel whose sender is gone is an Err, and unwrap() panics
Recv ==
    LET r == receivers[Len(receivers)]
    IN  /\ pc = "recv"
        /\ ~LoopDone
        /\ RecvReady(r)
        /\ receivers' = SubSeq(receivers, 1, Len(receivers) - 1)
        /\ IF chan[r] = "closed"
           THEN /\ pc' = "panic"
                /\ UNCHANGED <<rv, owner, chan, i>>
           ELSE /\ rv' = [from |-> r, buf |-> v[r]]
                /\ owner' = [owner EXCEPT ![r] = "orchestrator"]
                /\ chan' = [chan EXCEPT ![r] = "taken"]
                /\ i' = RowStart(DestPartition(th_index, r))
                /\ pc' = "copy"
        /\ UNCHANGED <<array, orig, N, TH_COUNT, th_index, v, wpc, wi,
                       sent_order, merged>>
        /\ UNCHANGED <<n, size, j, block_size, is_inverse, e, calls, swaps>>

\* lines 133-140: row i of the grid is overwritten by row i_get of the buffer
CopyRow ==
    LET d == DestPartition(th_index, rv.from)
        i_get == i - RowStart(d)
    IN  /\ pc = "copy"
        /\ i < RowEnd(d)
        /\ array' = [o \in DOMAIN array |->
                        IF o >= N * i /\ o < N * i + N
                        THEN rv.buf[i_get * N + (o - N * i)]
                        ELSE array[o]]
        /\ i' = i + 1
        /\ UNCHANGED <<orig, N, TH_COUNT, th_index, receivers, v, owner, wpc, wi,
                       chan, rv, sent_order, merged, pc>>
        /\ UNCHANGED <<n, size, j, block_size, is_inverse, e, calls, swaps>>

\* line 141: the buffer is dropped and th_index steps down, not below 0
CopyEnd ==
    /\ pc = "copy"
    /\ i >= RowEnd(DestPartition(th_index, rv.from))
    /\ th_index' = IF th_index = 0 THEN th_index ELSE th_index - 1
    /\ merged' = merged \cup {rv.from}
    /\ owner' = [owner EXCEPT ![rv.from] = "dropped"]
    /\ rv' = NoBuffer
    /\ pc' = "recv"
    /\ UNCHANGED <<array, orig, N, TH_COUNT, receivers, v, wpc, wi, chan,
                   sent_order>>
    /\ UNCHANGED seqVars

\* line 142: receivers.pop() yields nothing more
Return ==
    /\ pc = "recv"
    /\ LoopDone
    /\ pc' = "returned"
    /\ UNCHANGED <<array, orig>>
    /\ UNCHANGED parVars
    /\ UNCHANGED seqVars

HNext ==
    \/ Fill
    \/ Spawn
    \/ \E k \in Parts : WorkerRow(k)
    \/ \E k \in Parts : WorkerSend(k)
    \/ Recv
    \/ CopyRow
    \/ CopyEnd
    \/ Return

SpecH == HInit /\ [][HNext]_vars

\* the kernel called directly and the kernel called by the workers
SpecKernel == (FInit \/ HInit) /\ [][FNext \/ HNext]_vars

(***************************************************************************)
(* Properties of the sequential functions.                                 *)
(***************************************************************************)
\* how often the running call has swapped the pair of offsets {p, q}
SwapCount(p, q) ==
    Cardinality({s \in 1..Len(swaps) : {swaps[s][1], swaps[s][2]} = {p, q}})

\* C6: when square_transpose_in_place returns, offset i*n+j holds the value
\* that offset j*n+i held at the call, every off-diagonal pair has been
\* swapped exactly once, and no swap ever touches a diagonal offset.
C6_Transposed ==
    /\ pc = "done" =>
          \A r, c \in 0..(n - 1) :
              /\ array[r * n + c] = orig[c * n + r]
              /\ r # c => SwapCount(r * n + c, c * n + r) = 1
    /\ \A s \in 1..Len(swaps) : \A d \in 0..(n - 1) :
          d * n + d \notin {swaps[s][1], swaps[s][2]}
    /\ \A d \in 0..(n - 1) : array[d * n + d] = orig[d * n + d]

\* a 2x2 buffer [a, b, c, d] has become [a, c, b, d]
C6_Witness ==
    /\ pc = "done" /\ n = 2
    /\ orig = (0 :> Cx(1, 0) @@ 1 :> Cx(2, -1) @@ 2 :> Cx(3, -2) @@ 3 :> Cx(4, -3))
    /\ array = (0 :> Cx(1, 0) @@ 1 :> Cx(3, -2) @@ 2 :> Cx(2, -1) @@ 3 :> Cx(4, -3))

\* C10: two calls of reverse_bit_sort on a power-of-two length restore the
\* sequence, and within one call every pair {i, rev(i)} is swapped exactly
\* once (never swapped back).
C10_Involution ==
    /\ (pc = "done" /\ Len(calls) = 2) => array = orig
    /\ pc = "done" => \A k \in 0..(n - 1) : SwapCount(k, Rev(k, n)) = 1
    /\ pc = "loop" => \A k \in 0..(n - 1) : SwapCount(k, Rev(k, n)) <= 1

\* the second call has swapped offsets 1 and 2 of a length-4 sequence back
C10_Witness ==
    /\ pc = "done" /\ Len(calls) = 2 /\ n = 4
    /\ swaps = <<(<<0, 0>>), (<<1, 2>>), (<<3, 3>>)>>
    /\ array = [k \in 0..3 |-> Cx(k + 1, 0 - k)]

\* C2: on a power-of-two size, fft_in_place and then ifft_in_place give the
\* input sequence back.
C2_RoundTrip ==
    (pc = "done" /\ IsPow2(size) /\ calls = <<"fft_in_place", "ifft_in_place">>)
        => array = orig

\* a length-4 round trip of a sequence that is not zero has finished
C2_Witness ==
    /\ pc = "done" /\ size = 4 /\ calls = <<"fft_in_place", "ifft_in_place">>
    /\ array = orig
    /\ array = [k \in 0..3 |-> Cx(k, 1 - k)]

IsConstant(a) == \A k \in DOMAIN a : a[k] = a[0]

\* C5: fft_in_place takes a constant sequence [c, ..., c] of a power-of-two
\* length N to [N*c, 0, ..., 0], and any [x0, x1] to [x0+x1, x0-x1].
C5_Unnormalised ==
    (pc = "done" /\ IsPow2(size) /\ calls = <<"fft_in_place">>) =>
        /\ IsConstant(orig) =>
              \A k \in 0..(size - 1) :
                  array[k] = IF k = 0 THEN CScale(orig[0], R(size)) ELSE Zero
        /\ size = 2 =>
              /\ array[0] = CAdd(orig[0], orig[1])
              /\ array[1] = CSub(orig[0], orig[1])

\* the forward transform of [c, c, c, c] with c = 2 - i has given [8 - 4i, 0, 0, 0]
C5_Witness ==
    /\ pc = "done" /\ size = 4 /\ calls = <<"fft_in_place">>
    /\ orig = [k \in 0..3 |-> Cx(2, -1)]
    /\ array = (0 :> Cx(8, -4) @@ 1 :> Zero @@ 2 :> Zero @@ 3 :> Zero)

Impulse1 == (0 :> Zero @@ 1 :> Cx(1, 0) @@ 2 :> Zero @@ 3 :> Zero)

\* C8 as stated: the twiddle of every butterfly is cos - i*sin when forward and
\* cos + i*sin when inverse, and the forward transform of [0, 1, 0, 0] is
\* [1, -i, -1, i].
C8_AsStated ==
    /\ [][pc = "butterfly" =>
            e' = Complex(Cos(i, block_size),
                         RMul(IF is_inverse THEN R(1) ELSE R(-1),
                              Sin(i, block_size)))]_vars
    /\ []((pc = "done" /\ calls = <<"fft_in_place">> /\ orig = Impulse1) =>
            array = (0 :> Cx(1, 0) @@ 1 :> Cx(0, -1) @@ 2 :> Cx(-1, 0) @@ 3 :> Cx(0, 1)))

\* C8, amended: the twiddle of every butterfly is cos + i*sin when forward
\* and cos - i*sin when inverse, and the forward transform of [0, 1, 0, 0]
\* is [1, i, -1, -i].
C8_Twiddle ==
    /\ [][pc = "butterfly" =>
            e' = Complex(Cos(i, block_size),
                         RMul(IF is_inverse THEN R(-1) ELSE R(1),
                              Sin(i, block_size)))]_vars
    /\ []((pc = "done" /\ calls = <<"fft_in_place">> /\ orig = Impulse1) =>
            array = (0 :> Cx(1, 0) @@ 1 :> Cx(0, 1) @@ 2 :> Cx(-1, 0) @@ 3 :> Cx(0, -1)))

\* the forward transform of [0, 1, 0, 0] has finished, its last twiddle being i
C8_Witness ==
    /\ pc = "done" /\ calls = <<"fft_in_place">> /\ orig = Impulse1
    /\ e = Cx(0, 1)
    /\ array[1] = Cx(0, 1)

(***************************************************************************)
(* Properties of horizontal_square_fft.                                    *)
(***************************************************************************)
RowOf(a, r) == [o \in 0..(N - 1) |-> a[r * N + o]]

\* C1: when horizontal_square_fft returns, every row r of the grid is the
\* single-row transform of row r of the grid at the call.
C1_RowwiseSequential ==
    (pc = "returned" /\ IsPow2(N)) =>
        \A r \in 0..(N - 1) :
            RowOf(array, r) =
                base_f32_fft_in_place(RowOf(orig, r), N, is_inverse).array

\* a 4x4 grid has been transformed by two workers of two rows each
C1_Witness ==
    /\ pc = "returned" /\ N = 4 /\ TH_COUNT = 2
    /\ array # orig
    /\ RowOf(array, 3) = base_f32_fft_in_place(RowOf(orig, 3), 4, is_inverse).array

\* C3: whatever the order in which the workers send, the buffer written back
\* is written to the rows of the partition it was copied from, and at the
\* return the rows of every partition k hold the buffer worker k sent.
C3_OrderIndependent ==
    /\ pc = "copy" => i \in RowStart(rv.from)..RowEnd(rv.from)
    /\ pc = "returned" =>
          \A k \in Parts : \A o \in DOMAIN v[k] :
              array[CopyInStart(k) + o] = v[k][o]

\* worker 0 sent first although its buffer is received last
C3_Witness ==
    /\ pc = "returned" /\ N = 4 /\ TH_COUNT = 2
    /\ sent_order = <<0, 1>>
    /\ array # orig

\* C4: when the call returns, every worker has transformed all its rows and
\* sent its buffer, and every buffer has been received and written back.
C4_Synchronous ==
    pc = "returned" =>
        \A k \in Parts :
            /\ wpc[k] = "sent"
            /\ wi[k] = N \div TH_COUNT
            /\ chan[k] = "taken"
            /\ k \in merged

\* the call has returned with four workers
C4_Witness ==
    /\ pc = "returned" /\ TH_COUNT = 4
    /\ merged = 0..3
    /\ Len(sent_order) = 4

\* who may touch the worker-local copy of partition k, by its owner
Ownership ==
    \A k \in Parts :
        /\ wpc[k] = "run" <=> owner[k] = "worker"
        /\ owner[k] = "orchestrator" =>
              \/ pc = "spawn" /\ th_index = k /\ wpc[k] = "unspawned"
              \/ pc = "copy" /\ rv.from = k /\ wpc[k] = "sent" /\ chan[k] = "taken"
        /\ owner[k] = "channel" => wpc[k] = "sent" /\ chan[k] = "full"

\* C9: every worker-local copy has one owner at a time (the orchestrator
\* while it fills it, its worker until the send, the orchestrator after the
\* receive); only its owner writes it; the grid is written by the
\* orchestrator alone, and only in the rows of a partition whose buffer it
\* has received.
C9_ExclusiveOwnership ==
    /\ []Ownership
    /\ [][\A k \in Parts :
            v'[k] # v[k] =>
                \/ pc = "fill" /\ th_index = k /\ owner[k] = "none"
                \/ owner[k] = "worker" /\ wpc[k] = "run" /\ wpc'[k] = "run"]_vars
    /\ [][array' # array =>
            /\ pc = "copy"
            /\ v' = v /\ wpc' = wpc /\ wi' = wi
            /\ owner[rv.from] = "orchestrator"
            /\ chan[rv.from] = "taken"
            /\ \A o \in DOMAIN array :
                  array'[o] # array[o] =>
                      o \in CopyInStart(rv.from)..(CopyInEnd(rv.from) - 1)]_vars

\* the orchestrator writes back partition 1 while worker 0 still transforms
C9_Witness ==
    /\ pc = "copy" /\ TH_COUNT = 2 /\ N = 4
    /\ rv.from = 1 /\ owner[1] = "orchestrator"
    /\ wpc[0] = "run" /\ owner[0] = "worker" /\ wi[0] = 1
    /\ array # orig

(***************************************************************************)
(* The kernel on a size that is no power of two.                           *)
(***************************************************************************)
\* C7 as stated: on a size that is no power of two the kernel never aborts,
\* and no worker fails to deliver.
C7_AsStated ==
    /\ pc # "panic"
    /\ \A k \in Parts : wpc[k] # "panicked"

\* C7, amended: on a size N >= 3 that is no power of two the kernel never
\* returns; it panics on an offset past the slice in the first pass whose
\* block_size does not divide N, and a worker of horizontal_square_fft then
\* sends nothing, so that the call never returns either.
C7_Panics ==
    /\ (calls # <<>> /\ calls[1] # "horizontal_square_fft"
            /\ ~IsPow2(size) /\ size >= 3) =>
          /\ pc \in {"butterfly", "panic"}
          /\ size % block_size = 0 => pc = "butterfly"
          /\ pc = "panic" =>
                /\ block_size <= size
                /\ \A b \in 1..(block_size - 1) : IsPow2(b) => size % b = 0
                /\ j + i + block_size \div 2 >= size
    /\ (calls = <<"horizontal_square_fft">> /\ ~IsPow2(N) /\ N >= 3) =>
          /\ pc # "returned"
          /\ \A k \in Parts :
                /\ wpc[k] \in {"unspawned", "run", "panicked"}
                /\ chan[k] # "full"
                /\ wi[k] = 0

\* a kernel of size 6 has finished its pass of block_size 2 and panicked in
\* the pass of block_size 4
C7_Witness ==
    /\ pc = "panic" /\ size = 6 /\ calls = <<"fft_in_place">>
    /\ block_size = 4 /\ j = 4 /\ i = 0
    /\ array # orig

====
